---------------------------- MODULE Spec2Model ----------------------------
(***************************************************************************)
(* XLSForm validator (src/validator.py): the module-level validation       *)
(* script, run top to bottom by Streamlit on an uploaded workbook.         *)
(*                                                                         *)
(* A cell string is a sequence of one-character strings, so that the       *)
(* regular expressions, str.strip and str.lower are computed character by  *)
(* character.  A cell is a record [k, v]: k = "nan" for an empty cell (the  *)
(* NaN pandas.read_excel produces), k = "str" for a text cell with text v.  *)
(***************************************************************************)
EXTENDS Integers, Sequences, FiniteSets, TLC

(* ------------------------------ bounds -------------------------------- *)
MaxRows == 2
MaxChoiceRows == 2

(* ---------------------------- characters ------------------------------ *)
Upper ==
  << "A","B","C","D","E","F","G","H","I","J","K","L","M",
     "N","O","P","Q","R","S","T","U","V","W","X","Y","Z" >>

Lower ==
  << "a","b","c","d","e","f","g","h","i","j","k","l","m",
     "n","o","p","q","r","s","t","u","v","w","x","y","z" >>

Digit ==
  << "0","1","2","3","4","5","6","7","8","9" >>

InSeq(seq, c) == \E i \in 1..Len(seq) : seq[i] = c

IndexIn(seq, c) == CHOOSE i \in 1..Len(seq) : seq[i] = c

\* [A-Za-z]
IsLetter(c) == InSeq(Upper, c) \/ InSeq(Lower, c)

\* [A-Za-z0-9_], also the word characters that decide \b
IsWord(c) == IsLetter(c) \/ InSeq(Digit, c) \/ c = "_"

\* \s, and the characters str.strip() removes
IsSpace(c) == c \in {" ", "\t", "\n", "\r", "\f"}

\* code point of a character: the order sorted() and sort_values compare by
Ord(c) ==
  IF InSeq(Upper, c) THEN 64 + IndexIn(Upper, c)
  ELSE IF InSeq(Lower, c) THEN 96 + IndexIn(Lower, c)
  ELSE IF InSeq(Digit, c) THEN 47 + IndexIn(Digit, c)
  ELSE CASE c = "_"  -> 95
         [] c = " "  -> 32
         [] c = "\t" -> 9
         [] c = "\n" -> 10
         [] c = "\f" -> 12
         [] c = "\r" -> 13

\* Python's < on str: lexicographic by code point
StrLess(a, b) ==
  \/ /\ Len(a) < Len(b)
     /\ SubSeq(b, 1, Len(a)) = a
  \/ \E i \in 1..Len(a) :
       /\ i <= Len(b)
       /\ SubSeq(a, 1, i - 1) = SubSeq(b, 1, i - 1)
       /\ Ord(a[i]) < Ord(b[i])

\* str.lower() on one character
ToLower(c) == IF InSeq(Upper, c) THEN Lower[IndexIn(Upper, c)] ELSE c

str_lower(s) == [i \in 1..Len(s) |-> ToLower(s[i])]

SetMin(S) == CHOOSE x \in S : \A y \in S : x <= y

SetMax(S) == CHOOSE x \in S : \A y \in S : y <= x

\* str.strip(): leading and trailing whitespace removed
str_strip(s) ==
  LET keep == {i \in 1..Len(s) : ~IsSpace(s[i])}
  IN  IF keep = {} THEN << >> ELSE SubSeq(s, SetMin(keep), SetMax(keep))

(* ------------------------- regular expressions ------------------------ *)
\* re.match(r"^[A-Za-z][A-Za-z0-9_]*$", s): in Python "$" matches at the end
\* of the string and also just before a newline that ends the string.
name_pattern(s) ==
  /\ Len(s) >= 1
  /\ IsLetter(s[1])
  /\ \E n \in 1..Len(s) :
       /\ \A i \in 2..n : IsWord(s[i])
       /\ \/ n = Len(s)
          \/ n = Len(s) - 1 /\ s[Len(s)] = "\n"

kw_select_one == << "s","e","l","e","c","t","_","o","n","e" >>

kw_select_multiple ==
  << "s","e","l","e","c","t","_","m","u","l","t","i","p","l","e" >>

select_keywords == {kw_select_one, kw_select_multiple}

\* the keyword kw occupies s[p .. p + Len(kw) - 1]
StartsAt(s, p, kw) ==
  /\ p + Len(kw) - 1 <= Len(s)
  /\ SubSeq(s, p, p + Len(kw) - 1) = kw

\* str.contains(r"select_(one|multiple)\b"): a search anywhere in s; \b holds
\* after the keyword when the string ends or a non-word character follows.
select_pattern(s) ==
  \E p \in 1..Len(s) : \E kw \in select_keywords :
    /\ StartsAt(s, p, kw)
    /\ \/ p + Len(kw) - 1 = Len(s)
       \/ ~IsWord(s[p + Len(kw)])

\* a match of r"select_(?:one|multiple)\s+([^\s]+)" that starts at p: the
\* keyword, one or more whitespace characters, then a non-whitespace one
ExtractMatchesAt(s, p) ==
  \E kw \in select_keywords :
    /\ StartsAt(s, p, kw)
    /\ p + Len(kw) <= Len(s)
    /\ IsSpace(s[p + Len(kw)])
    /\ \E q \in (p + Len(kw) + 1)..Len(s) : ~IsSpace(s[q])

\* group 1 of that match: \s+ is greedy, [^\s]+ takes the whole run
ExtractGroupAt(s, p) ==
  LET kw == CHOOSE k \in select_keywords : StartsAt(s, p, k)
      q  == SetMin({j \in (p + Len(kw) + 1)..Len(s) : ~IsSpace(s[j])})
      r  == SetMax({j \in q..Len(s) : \A m \in q..j : ~IsSpace(s[m])})
  IN  SubSeq(s, q, r)

(* ------------------------------- cells -------------------------------- *)
NaN == [k |-> "nan", v |-> << >>]

Str(s) == [k |-> "str", v |-> s]

notna(c) == c.k # "nan"

isna(c) == c.k = "nan"

\* Series.str.extract(r"select_(?:one|multiple)\s+([^\s]+)")[0] on one cell:
\* the first (leftmost) match's group, NaN when nothing matches
str_extract(c) ==
  IF c.k = "str" /\ \E p \in 1..Len(c.v) : ExtractMatchesAt(c.v, p)
  THEN Str(ExtractGroupAt(c.v,
             SetMin({p \in 1..Len(c.v) : ExtractMatchesAt(c.v, p)})))
  ELSE NaN

\* Series.str.contains(..., na=False) on one cell
str_contains(c) == c.k = "str" /\ select_pattern(c.v)

(* ------------------------- pandas on a column ------------------------- *)
\* a DataFrame: the header's column names and the rows below it; row i of
\* the sequence has index i - 1
Column(df, col) == [i \in 1..Len(df.rows) |-> df.rows[i][col]]

Index(df) == 1..Len(df.rows)

\* index + 2: the header is spreadsheet row 1, index 0 is spreadsheet row 2
excel_row(i) == (i - 1) + 2

\* Series.duplicated(keep=False): every occurrence of a repeated value is
\* marked; NaN counts as equal to NaN
duplicated(series, i) ==
  \E j \in 1..Len(series) : j # i /\ series[j] = series[i]

\* read_excel gives a column the object dtype when it holds text or has no
\* rows, float64 when every cell is empty; .str exists on object only
has_str_accessor(series) ==
  \/ Len(series) = 0
  \/ \E i \in 1..Len(series) : series[i].k = "str"

\* str(x) of a text cell
py_str(c) == c.v

\* the orders in which iterating a set may deliver its elements
Orderings(S) ==
  {f \in [1..Cardinality(S) -> S] : \A x \in S : \E i \in DOMAIN f : f[i] = x}

RECURSIVE sorted(_)
\* sorted(set of str)
sorted(S) ==
  IF S = {} THEN << >>
  ELSE LET m == CHOOSE x \in S : \A y \in S \ {x} : StrLess(x, y)
       IN  << m >> \o sorted(S \ {m})

\* (name, excel_row) order of sort_values(["name", "excel_row"])
RowLess(a, b) ==
  \/ StrLess(a.name.v, b.name.v)
  \/ a.name.v = b.name.v /\ a.excel_row < b.excel_row

RECURSIVE sort_values(_)
sort_values(S) ==
  IF S = {} THEN << >>
  ELSE LET m == CHOOSE x \in S : \A y \in S \ {x} : RowLess(x, y)
       IN  << m >> \o sort_values(S \ {m})

RECURSIVE InIndexOrder(_, _)
\* the rows of a table in index order, as .loc[mask] delivers them
InIndexOrder(I, row) ==
  IF I = {} THEN << >>
  ELSE << row[SetMin(I)] >> \o InIndexOrder(I \ {SetMin(I)}, row)

(* ----------------------------- the workbook --------------------------- *)
s_q1 == << "q","1" >>

s_1a == << "1","a" >>

s_q1_nl == << "q","1","\n" >>

s_text == << "t","e","x","t" >>

s_select_one_colors == kw_select_one \o << " ","c","o","l","o","r","s" >>

s_select_multiple_Colors ==
  kw_select_multiple \o << " ","C","o","l","o","r","s" >>

s_End_Group == << " ","E","n","d","_","G","r","o","u","p"," " >>

s_END_REPEAT == << "E","N","D","_","R","E","P","E","A","T","\n" >>

s_colors == << "c","o","l","o","r","s" >>

s_red == << "r","e","d" >>

\* the cell values the survey's name column is drawn from
NameValues == {NaN, Str(s_q1), Str(s_1a), Str(s_q1_nl)}

\* the cell values the survey's type column is drawn from
TypeValues ==
  {NaN, Str(s_text), Str(s_select_one_colors), Str(s_select_multiple_Colors),
   Str(s_End_Group), Str(s_END_REPEAT)}

ListNameValues == {NaN, Str(s_colors)}

ChoiceNameValues == {NaN, Str(s_red)}

SeqsUpTo(S, n) == UNION {[1..k -> S] : k \in 0..n}

\* the survey sheet as read_excel delivers it; a sheet that lacks a required
\* column is stopped on before any row is looked at, so it is given no rows
SurveyFrames ==
  {[columns |-> {"name", "type"}, rows |-> r] :
      r \in SeqsUpTo([name : NameValues, type : TypeValues], MaxRows)}
  \cup {[columns |-> c, rows |-> << >>] : c \in {{}, {"name"}, {"type"}}}

\* a row of the choices sheet: at least one of its two cells is filled
ChoiceRowValues ==
  [list_name : ListNameValues, name : ChoiceNameValues]
    \ {[list_name |-> NaN, name |-> NaN]}

ChoiceFrames ==
  {[columns |-> {"list_name", "name"}, rows |-> r] :
      r \in SeqsUpTo(ChoiceRowValues, MaxChoiceRows)}
  \cup {[columns |-> c, rows |-> << >>] :
          c \in {{}, {"list_name"}, {"name"}}}

NoFrame == [columns |-> {}, rows |-> << >>]

(* ------------------------------- state -------------------------------- *)
VARIABLES
  sheet_names,     \* xls.sheet_names
  survey_df,       \* the survey sheet read at line 32
  choices_df,      \* the choices sheet, known once line 126 has read it
  choices_loaded,  \* line 126 has read the choices sheet
  pc,              \* the check the script is at, or halted in
  halt,            \* "running", "stopped" (st.stop), "crashed", "done"
  out,             \* what the run has put on the page, in order
  second,          \* this is the second run on the same upload
  prev             \* the first run's outcome

vars ==
  << sheet_names, survey_df, choices_df, choices_loaded, pc, halt, out,
     second, prev >>

workbook == << sheet_names, survey_df, choices_df, choices_loaded >>

(* --------------------------- page elements ---------------------------- *)
Element(k, msg) ==
  [k |-> k, msg |-> msg, names |-> << >>, lists |-> << >>,
   table |-> << >>, ctable |-> << >>]

\* the attributes of the streamlit module the script calls
st_attributes ==
  {"title", "write", "file_uploader", "info", "stop", "success", "error",
   "subheader", "caption", "dataframe"}

\* keyword parameters of st.dataframe
st_dataframe_keywords ==
  {"width", "height", "use_container_width", "hide_index", "column_order",
   "column_config", "key", "on_select", "selection_mode"}

\* st.<attr>(table, <keyword>=True): an attribute the module lacks raises
\* AttributeError, an unknown keyword TypeError; otherwise the table is shown
st_call_dataframe(attr, keyword, element) ==
  IF attr \notin st_attributes THEN Element("exception", "AttributeError")
  ELSE IF keyword \notin st_dataframe_keywords
       THEN Element("exception", "TypeError")
       ELSE element

\* the statement after the call is st.stop(); an exception ends the run first
AfterCall(element) == IF element.k = "exception" THEN "crashed" ELSE "stopped"

Halt(elements, how) ==
  /\ out' = out \o elements
  /\ halt' = how
  /\ pc' = pc

Goto(elements, next) ==
  /\ out' = out \o elements
  /\ pc' = next
  /\ halt' = "running"

At(label) == pc = label /\ halt = "running"

Init ==
  /\ sheet_names \in SUBSET {"survey", "choices"}
  /\ survey_df \in SurveyFrames
  /\ "survey" \notin sheet_names => survey_df = NoFrame
  /\ choices_df = NoFrame
  /\ choices_loaded = FALSE
  /\ pc = "read_survey"
  /\ halt = "running"
  /\ out = << >>
  /\ second = FALSE
  /\ prev = [out |-> << >>, pc |-> "read_survey", halt |-> "running"]

(* ------------------------ the checks' quantities ---------------------- *)
required_sheets == {"survey"}

missing_sheets == required_sheets \ sheet_names

required_columns == {"type", "name"}

missing_columns == required_columns \ survey_df.columns

\* ', '.join(a set): the elements in the set's iteration order
joined(S) == Orderings(S)

\* survey_df["name"].notna() & survey_df["name"].duplicated(keep=False)
dup_mask ==
  {i \in Index(survey_df) :
     /\ notna(survey_df.rows[i].name)
     /\ duplicated(Column(survey_df, "name"), i)}

\* survey_df.loc[dup_mask, ["name"]] with excel_row, sorted
dup_df ==
  sort_values({[excel_row |-> excel_row(i), name |-> survey_df.rows[i].name] :
                 i \in dup_mask})

\* the index of survey_df["name"].dropna()
name_dropna == {i \in Index(survey_df) : notna(survey_df.rows[i].name)}

\* the rows of the dropna()-ed series for which the lambda gives True
invalid_name_mask ==
  {i \in name_dropna : ~name_pattern(py_str(survey_df.rows[i].name))}

\* .loc[mask] wants a boolean series with the frame's own index
loc_aligned(mask_index, df) == mask_index = Index(df)

\* survey_df.loc[mask, ["name"]] with excel_row, in index order
name_rows(mask) ==
  InIndexOrder(mask,
    [i \in Index(survey_df) |->
       [excel_row |-> excel_row(i), name |-> survey_df.rows[i].name]])

select_used == \E i \in Index(survey_df) : str_contains(survey_df.rows[i].type)

\* set(choices_df["list_name"].dropna())
defined_lists(df) ==
  {df.rows[i].list_name.v : i \in {j \in Index(df) : notna(df.rows[j].list_name)}}

\* survey_df["type"].dropna().str.extract(...)[0].dropna(), as a set
used_lists ==
  {str_extract(survey_df.rows[i].type).v :
     i \in {j \in Index(survey_df) :
              /\ notna(survey_df.rows[j].type)
              /\ notna(str_extract(survey_df.rows[j].type))}}

\* the difference taken without regard to case
missing_lists_casefold(used, defined) ==
  {u \in used : str_lower(u) \notin {str_lower(d) : d \in defined}}

\* set(used_lists) - defined_lists
missing_lists(used, defined) == used \ defined

\* st.write(list(missing_lists)): the list in the set's iteration order
written_unsorted(S) == Orderings(S)

\* st.write(sorted(missing_lists)): the one order in which the list is shown
written_lists(S) == {sorted(S)}

\* choices_df.duplicated(subset=["list_name", "name"], keep=False), and both
\* cells not empty
choices_dup_mask(df) ==
  {i \in Index(df) :
     /\ \E j \in Index(df) :
          /\ j # i
          /\ df.rows[j].list_name = df.rows[i].list_name
          /\ df.rows[j].name = df.rows[i].name
     /\ notna(df.rows[i].list_name)
     /\ notna(df.rows[i].name)}

\* choices_df.loc[dup_mask, ["list_name", "name"]]
choices_dup_rows(df) ==
  InIndexOrder(choices_dup_mask(df),
    [i \in Index(df) |->
       [index |-> i - 1, list_name |-> df.rows[i].list_name,
        name |-> df.rows[i].name]])

missing_type == {i \in Index(survey_df) : isna(survey_df.rows[i].type)}

end_group == << "e","n","d","_","g","r","o","u","p" >>

end_repeat == << "e","n","d","_","r","e","p","e","a","t" >>

end_types == {end_group, end_repeat}

\* the normalisation without .str.strip()
type_lowered_only(c) == str_lower(IF isna(c) THEN << >> ELSE py_str(c))

\* .fillna("").astype(str).str.strip().str.lower() on one cell
type_normalized(c) == str_lower(str_strip(IF isna(c) THEN << >> ELSE py_str(c)))

rows_requiring_name ==
  {i \in Index(survey_df) :
     type_normalized(survey_df.rows[i].type) \notin end_types}

missing_name ==
  {i \in Index(survey_df) : isna(survey_df.rows[i].name)}
  \cap rows_requiring_name

(* ------------------------------ messages ------------------------------ *)
msg_unable_to_read ==
  "Unable to read the 'survey' sheet"

msg_name_column ==
  "The 'survey' sheet must contain a 'name' column."

msg_valid_structure ==
  "Looks like a valid XLSForm structure"

msg_missing_sheets ==
  "Missing required sheets"

msg_missing_columns ==
  "'survey' sheet is missing required columns"

msg_duplicate_names ==
  "Duplicate question names found."

msg_unique_caption ==
  "Each question name must be unique in an XLSForm."

msg_invalid_name ==
  "Invalid question name found."

msg_no_choices_sheet ==
  "This form uses select_one / select_multiple but has no 'choices' sheet."

msg_choices_columns ==
  "'choices' sheet must contain 'list_name' and 'name' columns."

msg_missing_lists ==
  "Missing choice lists referenced in survey:"

msg_duplicate_choices ==
  "Duplicate choice names found within the same list:"

msg_empty_type ==
  "Empty cells found in required column 'type'."

msg_empty_name ==
  "Empty cells found in required column 'name' (except 'end_group' / 'end_repeat' rows)."

msg_success ==
  "Basic XLSForm checks successful"

(* ------------------------------ the script ---------------------------- *)
\* lines 31-38
ReadSurvey ==
  /\ At("read_survey")
  /\ IF "survey" \notin sheet_names
     THEN Halt(<< Element("error", msg_unable_to_read) >>,
               "stopped")
     ELSE Goto(<< >>, "name_column")
  /\ UNCHANGED << workbook, second, prev >>

\* lines 40-47
NameColumn ==
  /\ At("name_column")
  /\ IF "name" \notin survey_df.columns
     THEN Halt(<< [Element("error", msg_name_column)
                   EXCEPT !.names = << "name" >>] >>, "stopped")
     ELSE Goto(<< Element("success", msg_valid_structure) >>,
               "required_sheets")
  /\ UNCHANGED << workbook, second, prev >>

\* lines 52-65.  pd.ExcelFile opens the bytes read_excel has already parsed.
RequiredSheets ==
  /\ At("required_sheets")
  /\ IF missing_sheets # {}
     THEN \E names \in joined(missing_sheets) :
            Halt(<< [Element("error", msg_missing_sheets)
                     EXCEPT !.names = names] >>, "stopped")
     ELSE Goto(<< >>, "required_columns")
  /\ UNCHANGED << workbook, second, prev >>

\* lines 67-73
RequiredColumns ==
  /\ At("required_columns")
  /\ IF missing_columns # {}
     THEN \E names \in joined(missing_columns) :
            Halt(<< [Element("error", msg_missing_columns)
                     EXCEPT !.names = names] >>, "stopped")
     ELSE Goto(<< >>, "duplicate_names")
  /\ UNCHANGED << workbook, second, prev >>

\* lines 75-93
DuplicateNames ==
  /\ At("duplicate_names")
  /\ IF dup_mask # {}
     THEN LET shown == st_call_dataframe("data_frame", "use_container_width",
                         [Element("dataframe", "") EXCEPT !.table = dup_df])
          IN  Halt(<< Element("error", msg_duplicate_names),
                      Element("caption", msg_unique_caption),
                      shown >>, AfterCall(shown))
     ELSE Goto(<< >>, "invalid_names")
  /\ UNCHANGED << workbook, second, prev >>

\* lines 96-114
InvalidNames ==
  /\ At("invalid_names")
  /\ IF invalid_name_mask # {}
     THEN LET shown ==
                IF ~loc_aligned(name_dropna, survey_df)
                THEN Element("exception", "IndexingError")
                ELSE st_call_dataframe("dataframe", "user_container_width",
                       [Element("dataframe", "")
                        EXCEPT !.table = name_rows(invalid_name_mask)])
          IN  Halt(<< Element("error", msg_invalid_name),
                      shown >>, AfterCall(shown))
     ELSE Goto(<< >>, "select_used")
  /\ UNCHANGED << workbook, second, prev >>

\* lines 116-123
SelectUsed ==
  /\ At("select_used")
  /\ IF ~has_str_accessor(Column(survey_df, "type"))
     THEN Halt(<< Element("exception", "AttributeError") >>, "crashed")
     ELSE IF select_used /\ "choices" \notin sheet_names
          THEN Halt(<< Element("error", msg_no_choices_sheet) >>,
                    "stopped")
          ELSE Goto(<< >>, "choices")
  /\ UNCHANGED << workbook, second, prev >>

\* lines 125-146.  The choices sheet is part of the uploaded workbook; its
\* content becomes known to the script at the read_excel of line 126, and a
\* later run on the same upload reads the same content.
Choices ==
  /\ At("choices")
  /\ IF "choices" \in sheet_names
     THEN \E df \in (IF choices_loaded THEN {choices_df} ELSE ChoiceFrames) :
            /\ choices_df' = df
            /\ choices_loaded' = TRUE
            /\ IF ~({"list_name", "name"} \subseteq df.columns)
               THEN Halt(<< Element("error", msg_choices_columns) >>,
                         "stopped")
               ELSE LET missing == missing_lists(used_lists, defined_lists(df))
                    IN  IF missing # {}
                        THEN \E lists \in written_lists(missing) :
                               Halt(<< Element("error", msg_missing_lists),
                                       [Element("write", "")
                                        EXCEPT !.lists = lists] >>,
                                    "stopped")
                        ELSE Goto(<< >>, "duplicate_choices")
     ELSE /\ Goto(<< >>, "duplicate_choices")
          /\ UNCHANGED << choices_df, choices_loaded >>
  /\ UNCHANGED << sheet_names, survey_df, second, prev >>

\* lines 148-156
DuplicateChoices ==
  /\ At("duplicate_choices")
  /\ IF "choices" \in sheet_names /\ choices_dup_mask(choices_df) # {}
     THEN Halt(<< Element("error", msg_duplicate_choices),
                  [Element("dataframe", "")
                   EXCEPT !.ctable = choices_dup_rows(choices_df)] >>,
               "stopped")
     ELSE Goto(<< >>, "empty_type")
  /\ UNCHANGED << workbook, second, prev >>

\* lines 158-171
EmptyType ==
  /\ At("empty_type")
  /\ IF missing_type # {}
     THEN LET shown == st_call_dataframe("dataframe", "user_container_width",
                         [Element("dataframe", "")
                          EXCEPT !.table = name_rows(missing_type)])
          IN  Halt(<< Element("error", msg_empty_type),
                      shown >>, AfterCall(shown))
     ELSE Goto(<< >>, "empty_name")
  /\ UNCHANGED << workbook, second, prev >>

\* lines 173-180
EmptyName ==
  /\ At("empty_name")
  /\ IF missing_name # {}
     THEN Halt(<< Element("error", msg_empty_name) >>,
               "stopped")
     ELSE Goto(<< >>, "success")
  /\ UNCHANGED << workbook, second, prev >>

\* line 183
Success ==
  /\ At("success")
  /\ Halt(<< Element("success", msg_success) >>, "done")
  /\ UNCHANGED << workbook, second, prev >>

\* Streamlit runs the script again, from the top, on the same upload
Rerun ==
  /\ halt # "running"
  /\ ~second
  /\ second' = TRUE
  /\ prev' = [out |-> out, pc |-> pc, halt |-> halt]
  /\ out' = << >>
  /\ pc' = "read_survey"
  /\ halt' = "running"
  /\ UNCHANGED workbook

Next ==
  \/ ReadSurvey
  \/ NameColumn
  \/ RequiredSheets
  \/ RequiredColumns
  \/ DuplicateNames
  \/ InvalidNames
  \/ SelectUsed
  \/ Choices
  \/ DuplicateChoices
  \/ EmptyType
  \/ EmptyName
  \/ Success
  \/ Rerun

Spec == Init /\ [][Next]_vars

(* ====================================================================== *)
(* What the specification says of a workbook, stated on the workbook and  *)
(* on the page, without the script's own quantities.                      *)
(* ====================================================================== *)
Finished == halt # "running"

IsDiagnostic(e) == e.k \in {"error", "exception"}

Diagnostics == SelectSeq(out, IsDiagnostic)

Shows(k, msg) == \E i \in 1..Len(out) : out[i].k = k /\ out[i].msg = msg

EndsInSuccess ==
  /\ halt = "done"
  /\ Len(out) > 0
  /\ out[Len(out)].k = "success"
  /\ out[Len(out)].msg = msg_success

\* the choices sheet's content is known: there is none, or it has been read
ChoicesKnown == "choices" \notin sheet_names \/ choices_loaded

Rows == 1..Len(survey_df.rows)

NameOf(i) == survey_df.rows[i].name

TypeOf(i) == survey_df.rows[i].type

\* an ASCII letter followed by zero or more ASCII letters, digits, underscores
LexicallyValid(s) ==
  /\ Len(s) >= 1
  /\ IsLetter(s[1])
  /\ \A i \in 2..Len(s) : IsWord(s[i])

SameIgnoringCase(a, b) ==
  /\ Len(a) = Len(b)
  /\ \A i \in 1..Len(a) :
       \/ a[i] = b[i]
       \/ \E n \in 1..26 : {a[i], b[i]} = {Upper[n], Lower[n]}

\* the type, trimmed and compared without case, is end_group or end_repeat
IsEndMarker(c) ==
  /\ c.k = "str"
  /\ \E i \in 1..Len(c.v) : \E j \in i..Len(c.v) :
       /\ \A m \in 1..(i - 1) : IsSpace(c.v[m])
       /\ \A m \in (j + 1)..Len(c.v) : IsSpace(c.v[m])
       /\ ~IsSpace(c.v[i])
       /\ ~IsSpace(c.v[j])
       /\ \E e \in {end_group, end_repeat} : SameIgnoringCase(SubSeq(c.v, i, j), e)

\* the position that follows the select keyword a type value begins with
AfterKeyword(s) ==
  {Len(kw) + 1 : kw \in {k \in select_keywords : StartsAt(s, 1, k)}}

\* the lists L for which the type value reads 'select_one L' or
\* 'select_multiple L': the keyword, whitespace, then L up to the next
\* whitespace or the end
ListsReferencedBy(c) ==
  IF c.k # "str" \/ AfterKeyword(c.v) = {} THEN {}
  ELSE LET s == c.v
           starts == {q \in 2..Len(s) :
                        /\ ~IsSpace(s[q])
                        /\ IsSpace(s[q - 1])
                        /\ \E a \in AfterKeyword(s) :
                             a < q /\ \A m \in a..(q - 1) : IsSpace(s[m])}
           ends(q) == {r \in q..Len(s) :
                         /\ \A m \in q..r : ~IsSpace(s[m])
                         /\ r = Len(s) \/ IsSpace(s[r + 1])}
       IN  UNION {{SubSeq(s, q, r) : r \in ends(q)} : q \in starts}

\* the type value uses select_one or select_multiple
UsesSelect(c) ==
  /\ c.k = "str"
  /\ \E p \in 1..Len(c.v) : \E kw \in select_keywords : StartsAt(c.v, p, kw)

ReferencedLists == UNION {ListsReferencedBy(TypeOf(i)) : i \in Rows}

ChoicesColumnsPresent == {"list_name", "name"} \subseteq choices_df.columns

DefinedLists ==
  {choices_df.rows[i].list_name.v :
     i \in {j \in 1..Len(choices_df.rows) : choices_df.rows[j].list_name.k = "str"}}

\* the referenced lists no choices row defines (all of them without a sheet)
MissingLists ==
  IF "choices" \in sheet_names /\ choices_loaded
  THEN ReferencedLists \ DefinedLists
  ELSE ReferencedLists

IsSortedListOf(seq, S) ==
  /\ Len(seq) = Cardinality(S)
  /\ {seq[i] : i \in 1..Len(seq)} = S
  /\ \A i \in 1..Len(seq) : \A j \in 1..Len(seq) : i < j => StrLess(seq[i], seq[j])

DuplicatedRows ==
  {i \in Rows : NameOf(i).k = "str" /\ \E j \in Rows : j # i /\ NameOf(j) = NameOf(i)}

InvalidRows == {i \in Rows : NameOf(i).k = "str" /\ ~LexicallyValid(NameOf(i).v)}

EmptyTypeRows == {i \in Rows : TypeOf(i).k = "nan"}

EmptyNameRows == {i \in Rows : NameOf(i).k = "nan" /\ ~IsEndMarker(TypeOf(i))}

DuplicatedChoices ==
  \E i \in 1..Len(choices_df.rows) : \E j \in 1..Len(choices_df.rows) :
    /\ i # j
    /\ choices_df.rows[i] = choices_df.rows[j]
    /\ choices_df.rows[i].list_name.k = "str"
    /\ choices_df.rows[i].name.k = "str"

\* the failure condition of each stage of the pipeline, 1 to 7
StageFails(n) ==
  CASE n = 1 -> "survey" \notin sheet_names
    [] n = 2 -> ~({"name", "type"} \subseteq survey_df.columns)
    [] n = 3 -> DuplicatedRows # {}
    [] n = 4 -> InvalidRows # {}
    [] n = 5 -> \/ "choices" \notin sheet_names /\ \E i \in Rows : UsesSelect(TypeOf(i))
                \/ /\ "choices" \in sheet_names
                   /\ \/ ~ChoicesColumnsPresent
                      \/ MissingLists # {}
                      \/ DuplicatedChoices
    [] n = 6 -> EmptyTypeRows # {}
    [] n = 7 -> EmptyNameRows # {}

\* the messages by which a stage reports its failure
StageMessages(n) ==
  CASE n = 1 -> {msg_unable_to_read, msg_missing_sheets}
    [] n = 2 -> {msg_name_column, msg_missing_columns}
    [] n = 3 -> {msg_duplicate_names}
    [] n = 4 -> {msg_invalid_name}
    [] n = 5 -> {msg_no_choices_sheet, msg_choices_columns, msg_missing_lists,
                 msg_duplicate_choices}
    [] n = 6 -> {msg_empty_type}
    [] n = 7 -> {msg_empty_name}

FailingStages == {n \in 1..7 : StageFails(n)}

\* the run got as far as the select/choices stage
ReachedSelectStage ==
  pc \in {"select_used", "choices", "duplicate_choices", "empty_type",
          "empty_name", "success"}

\* the run got as far as the empty-name stage
ReachedEmptyNameStage == pc \in {"empty_name", "success"}

\* the table shown lists exactly the rows I, each with its spreadsheet row
TableLists(table, I) ==
  /\ Len(table) = Cardinality(I)
  /\ {table[i] : i \in 1..Len(table)}
       = {[excel_row |-> i + 1, name |-> NameOf(i)] : i \in I}

ShowsTableOf(I) ==
  \E i \in 1..Len(out) : out[i].k = "dataframe" /\ TableLists(out[i].table, I)

(* ------------------------------- claims ------------------------------- *)
\* C1: a finished run reports exactly one diagnostic, that of the lowest
\* stage (1 sheets, 2 columns, 3 duplicate names, 4 invalid names,
\* 5 select/choices, 6 empty type, 7 empty name) whose failure condition
\* holds, and no final success; when no stage fails it ends in success with
\* no diagnostic at all.
C1_FirstFailureOnly ==
  Finished /\ (ChoicesKnown \/ FailingStages \cap 1..4 # {}) =>
    IF FailingStages = {}
    THEN Diagnostics = << >> /\ EndsInSuccess
    ELSE /\ Len(Diagnostics) = 1
         /\ Diagnostics[1].k = "error"
         /\ Diagnostics[1].msg \in StageMessages(SetMin(FailingStages))
         /\ ~Shows("success", msg_success)

\* C2: a survey that lacks 'name', 'type' or both fails with an error that
\* names exactly the missing columns.
C2_MissingColumnsNamed ==
  Finished /\ "survey" \in sheet_names
           /\ {"name", "type"} \ survey_df.columns # {} =>
    /\ halt = "stopped"
    /\ \E i \in 1..Len(out) :
         /\ out[i].k = "error"
         /\ {out[i].names[n] : n \in 1..Len(out[i].names)}
              = {"name", "type"} \ survey_df.columns

\* C3: a survey in which a non-empty name occurs twice or more fails with
\* the duplicate-name error and shows a table of exactly the rows bearing a
\* duplicated name, each with spreadsheet row index + 2, ordered by
\* (name, row).
C3_DuplicateRowsListed ==
  Finished /\ {"name", "type"} \subseteq survey_df.columns
           /\ DuplicatedRows # {} =>
    /\ Shows("error", msg_duplicate_names)
    /\ \E i \in 1..Len(out) :
         /\ out[i].k = "dataframe"
         /\ TableLists(out[i].table, DuplicatedRows)
         /\ \A a \in 1..Len(out[i].table) : \A b \in 1..Len(out[i].table) :
              a < b => RowLess(out[i].table[a], out[i].table[b])

\* C4: in a survey that passes the sheet, column and duplicate stages, the
\* invalid-name error is raised exactly when some non-empty name is not a
\* letter followed by letters, digits or underscores, and it then shows a
\* table of exactly the rows holding such names, also when other rows have
\* an empty name.
C4_InvalidNamesListed ==
  Finished /\ FailingStages \cap 1..3 = {} =>
    /\ Shows("error", msg_invalid_name) <=> InvalidRows # {}
    /\ InvalidRows # {} => ShowsTableOf(InvalidRows)

\* C5: in a run that reaches the empty-name stage, the empty-name error is
\* raised exactly when some row has an empty name and a type that, trimmed
\* and lower-cased, is neither end_group nor end_repeat; otherwise the run
\* goes on to success.
C5_EmptyNameExemption ==
  Finished /\ ReachedEmptyNameStage =>
    IF EmptyNameRows # {}
    THEN /\ halt = "stopped"
         /\ pc = "empty_name"
         /\ out[Len(out)].k = "error"
         /\ out[Len(out)].msg = msg_empty_name
    ELSE /\ EndsInSuccess
         /\ ~Shows("error", msg_empty_name)

\* a row with empty name and an end marker written with other case and with
\* surrounding whitespace went through to success
C5_Witness ==
  /\ EndsInSuccess
  /\ \E i \in Rows :
       /\ NameOf(i).k = "nan"
       /\ IsEndMarker(TypeOf(i))
       /\ TypeOf(i).v \notin end_types

\* C6 as claimed: a run that reaches the select/choices stage with a type
\* 'select_one L' / 'select_multiple L' whose list L is defined by no
\* choices row, or with no choices sheet, fails at that stage and cites the
\* missing lists, all of them, sorted.
C6_MissingListsCited ==
  Finished /\ ReachedSelectStage /\ ChoicesKnown /\ MissingLists # {} =>
    /\ halt = "stopped"
    /\ pc \in {"select_used", "choices"}
    /\ \E i \in 1..Len(out) :
         out[i].k = "write" /\ IsSortedListOf(out[i].lists, MissingLists)

\* C6 as amended: such a run fails at the select/choices stage; with the
\* no-choices-sheet error when there is no choices sheet, with the
\* choices-columns error when the sheet lacks list_name or name, and
\* otherwise with the missing-lists error citing all missing lists, sorted;
\* a list is defined only by a list_name equal to it character by character.
C6_FailsAtSelectStage ==
  Finished /\ ReachedSelectStage /\ ChoicesKnown /\ MissingLists # {} =>
    /\ halt = "stopped"
    /\ pc \in {"select_used", "choices"}
    /\ Len(Diagnostics) = 1
    /\ IF "choices" \notin sheet_names
       THEN Diagnostics[1].msg = msg_no_choices_sheet
       ELSE IF ~ChoicesColumnsPresent
            THEN Diagnostics[1].msg = msg_choices_columns
            ELSE /\ Diagnostics[1].msg = msg_missing_lists
                 /\ out[Len(out)].k = "write"
                 /\ IsSortedListOf(out[Len(out)].lists, MissingLists)

\* 'select_multiple Colors' was reported missing although the choices sheet
\* defines 'colors'
C6_Witness ==
  /\ Finished
  /\ pc = "choices"
  /\ s_colors \in DefinedLists
  /\ \E i \in 1..Len(out) :
       out[i].k = "write" /\ << "C","o","l","o","r","s" >> \in
                               {out[i].lists[n] : n \in 1..Len(out[i].lists)}

\* C7: the second run on the same workbook ends where the first ended, in
\* the same way, with the same page: same messages, same lists and tables in
\* the same order.
C7_Idempotent ==
  second /\ Finished =>
    /\ out = prev.out
    /\ pc = prev.pc
    /\ halt = prev.halt

\* a second run has finished showing a list of two missing lists
C7_Witness ==
  /\ second
  /\ Finished
  /\ \E i \in 1..Len(out) : out[i].k = "write" /\ Len(out[i].lists) = 2

\* C8: a workbook whose survey has name and type columns, whose rows all
\* have a non-empty type and a non-empty, unique, lexically valid name, with
\* no select type, and whose choices sheet has no rows, ends in success.
C8_CleanWorkbookSucceeds ==
  Finished /\ {"survey", "choices"} \subseteq sheet_names
           /\ {"name", "type"} \subseteq survey_df.columns
           /\ (\A i \in Rows :
                 /\ TypeOf(i).k = "str"
                 /\ NameOf(i).k = "str"
                 /\ LexicallyValid(NameOf(i).v)
                 /\ ~UsesSelect(TypeOf(i)))
           /\ DuplicatedRows = {}
           /\ choices_loaded
           /\ choices_df.rows = << >> =>
    EndsInSuccess

\* C9: a survey that passes stages 1-5 and has a row with empty type fails
\* with the empty-type error and shows a table of exactly the rows with
\* empty type, also when every row's type is empty.
C9_EmptyTypeListed ==
  Finished /\ ChoicesKnown /\ FailingStages \cap 1..5 = {}
           /\ EmptyTypeRows # {} =>
    /\ Len(Diagnostics) = 1
    /\ Diagnostics[1].k = "error"
    /\ Diagnostics[1].msg = msg_empty_type
    /\ ShowsTableOf(EmptyTypeRows)

\* C10: a run that ends with the final success message was given a workbook
\* whose survey has name and type columns, no repeated non-empty name, only
\* lexically valid names, no empty type, no empty name outside end_group /
\* end_repeat rows, only references to lists that an existing choices sheet
\* defines, and a choices sheet, if any, with list_name and name columns and
\* no repeated (list_name, name) pair.
C10_SuccessIsSound ==
  EndsInSuccess =>
    /\ {"name", "type"} \subseteq survey_df.columns
    /\ DuplicatedRows = {}
    /\ InvalidRows = {}
    /\ EmptyTypeRows = {}
    /\ EmptyNameRows = {}
    /\ ReferencedLists # {} => "choices" \in sheet_names
    /\ MissingLists = {}
    /\ "choices" \in sheet_names => ChoicesColumnsPresent /\ ~DuplicatedChoices

=============================================================================
